---------------------------- MODULE Spec2Model ----------------------------
(***************************************************************************)
(* A model of scripts/render_ply.py: render_splat, the CPU renderer of a   *)
(* 3D Gaussian splat cloud.  One behaviour is one call of render_splat     *)
(* (followed, for the filter comparison, by a second call on the same      *)
(* scene without its low-opacity vertices).                                *)
(*                                                                         *)
(* Numbers.  The floating-point quantities are fixed-point integers:       *)
(*   - opacities, colours, Gaussian weights, the two accumulators and the  *)
(*     raw coefficients, logits and log-scales of the file are integers in *)
(*     units of 1/Scale (1.0 is Scale);                                    *)
(*   - world coordinates and world radii are integers in units of 1e-8,    *)
(*     so that the literal 1e-8 of the source is exactly one unit (Eps).   *)
(* A product of two Scale-valued numbers is rounded to the nearest unit    *)
(* (Mul), as a float product is rounded to the nearest float.  exp() is    *)
(* a table of its rounded values on the arguments the model uses.          *)
(***************************************************************************)
EXTENDS Integers, Sequences, FiniteSets, TLC

\* 1.0 of the float32 buffers, in fixed-point units.
Scale == 10000

\* The literal 1e-8 of the divisions, in world units of 1e-8.
Eps == 1

\* np.exp(-dist_sq / (2 sigma^2)) with sigma = r/2 + 0.5, times Scale, rounded:
\* GaussTable[r][dist_sq + 1] for r in 1..12 and dist_sq in 0..2r^2.
GaussTable ==
  << <<10000, 6065, 3679>>,
     <<10000, 8007, 6412, 5134, 4111, 3292, 2636, 2111, 1690>>,
     <<10000, 8825, 7788, 6873, 6065, 5353, 4724, 4169, 3679, 3247, 2865, 2528, 2231, 1969, 1738,
        1534, 1353, 1194, 1054>>,
     <<10000, 9231, 8521, 7866, 7261, 6703, 6188, 5712, 5273, 4868, 4493, 4148, 3829, 3535, 3263,
        3012, 2780, 2567, 2369, 2187, 2019, 1864, 1720, 1588, 1466, 1353, 1249, 1153, 1065, 983,
        907, 837, 773>>,
     <<10000, 9460, 8948, 8465, 8007, 7575, 7165, 6778, 6412, 6065, 5738, 5427, 5134, 4857, 4594,
        4346, 4111, 3889, 3679, 3480, 3292, 3114, 2946, 2787, 2636, 2494, 2359, 2231, 2111, 1997,
        1889, 1787, 1690, 1599, 1512, 1431, 1353, 1280, 1211, 1146, 1084, 1025, 970, 917, 868, 821,
        776, 735, 695, 657, 622>>,
     <<10000, 9600, 9216, 8848, 8494, 8154, 7828, 7515, 7214, 6926, 6649, 6383, 6128, 5882, 5647,
        5421, 5205, 4996, 4797, 4605, 4421, 4244, 4074, 3911, 3755, 3604, 3460, 3322, 3189, 3062,
        2939, 2822, 2709, 2600, 2496, 2397, 2301, 2209, 2120, 2036, 1954, 1876, 1801, 1729, 1660,
        1593, 1530, 1468, 1410, 1353, 1299, 1247, 1197, 1149, 1104, 1059, 1017, 976, 937, 900, 864,
        829, 796, 764, 734, 704, 676, 649, 623, 598, 574, 551, 529>>,
     <<10000, 9692, 9394, 9105, 8825, 8553, 8290, 8035, 7788, 7548, 7316, 7091, 6873, 6661, 6456,
        6258, 6065, 5879, 5698, 5523, 5353, 5188, 5028, 4874, 4724, 4578, 4437, 4301, 4169, 4040,
        3916, 3796, 3679, 3566, 3456, 3350, 3247, 3147, 3050, 2956, 2865, 2777, 2691, 2609, 2528,
        2451, 2375, 2302, 2231, 2163, 2096, 2032, 1969, 1909, 1850, 1793, 1738, 1684, 1632, 1582,
        1534, 1486, 1441, 1396, 1353, 1312, 1271, 1232, 1194, 1158, 1122, 1087, 1054, 1022, 990,
        960, 930, 902, 874, 847, 821, 796, 771, 747, 724, 702, 681, 660, 639, 620, 601, 582, 564,
        547, 530, 514, 498, 483, 468>>,
     <<10000, 9756, 9518, 9286, 9060, 8839, 8623, 8413, 8208, 8007, 7812, 7622, 7436, 7254, 7077,
        6905, 6736, 6572, 6412, 6255, 6103, 5954, 5809, 5667, 5529, 5394, 5263, 5134, 5009, 4887,
        4768, 4651, 4538, 4427, 4319, 4214, 4111, 4011, 3913, 3818, 3724, 3634, 3545, 3459, 3374,
        3292, 3212, 3133, 3057, 2982, 2910, 2839, 2769, 2702, 2636, 2572, 2509, 2448, 2388, 2330,
        2273, 2218, 2163, 2111, 2059, 2009, 1960, 1912, 1866, 1820, 1776, 1732, 1690, 1649, 1609,
        1569, 1531, 1494, 1457, 1422, 1387, 1353, 1320, 1288, 1257, 1226, 1196, 1167, 1139, 1111,
        1084, 1057, 1031, 1006, 982, 958, 934, 912, 889, 868, 847, 826, 806, 786, 767, 748, 730,
        712, 695, 678, 661, 645, 629, 614, 599, 585, 570, 556, 543, 530, 517, 504, 492, 480, 468,
        457, 446, 435, 424>>,
     <<10000, 9802, 9608, 9418, 9231, 9048, 8869, 8694, 8521, 8353, 8187, 8025, 7866, 7711, 7558,
        7408, 7261, 7118, 6977, 6839, 6703, 6570, 6440, 6313, 6188, 6065, 5945, 5827, 5712, 5599,
        5488, 5379, 5273, 5169, 5066, 4966, 4868, 4771, 4677, 4584, 4493, 4404, 4317, 4232, 4148,
        4066, 3985, 3906, 3829, 3753, 3679, 3606, 3535, 3465, 3396, 3329, 3263, 3198, 3135, 3073,
        3012, 2952, 2894, 2837, 2780, 2725, 2671, 2618, 2567, 2516, 2466, 2417, 2369, 2322, 2276,
        2231, 2187, 2144, 2101, 2060, 2019, 1979, 1940, 1901, 1864, 1827, 1791, 1755, 1720, 1686,
        1653, 1620, 1588, 1557, 1526, 1496, 1466, 1437, 1409, 1381, 1353, 1327, 1300, 1275, 1249,
        1225, 1200, 1177, 1153, 1130, 1108, 1086, 1065, 1044, 1023, 1003, 983, 963, 944, 926, 907,
        889, 872, 854, 837, 821, 805, 789, 773, 758, 743, 728, 714, 699, 686, 672, 659, 646, 633,
        620, 608, 596, 584, 573, 561, 550, 539, 529, 518, 508, 498, 488, 478, 469, 460, 450, 442,
        433, 424, 416, 408, 400, 392>>,
     <<10000, 9836, 9675, 9516, 9360, 9207, 9056, 8907, 8761, 8618, 8476, 8338, 8201, 8066, 7934,
        7804, 7676, 7550, 7427, 7305, 7185, 7067, 6951, 6837, 6725, 6615, 6507, 6400, 6295, 6192,
        6090, 5991, 5892, 5796, 5701, 5607, 5515, 5425, 5336, 5249, 5163, 5078, 4995, 4913, 4832,
        4753, 4675, 4598, 4523, 4449, 4376, 4304, 4234, 4164, 4096, 4029, 3963, 3898, 3834, 3771,
        3709, 3649, 3589, 3530, 3472, 3415, 3359, 3304, 3250, 3197, 3144, 3093, 3042, 2992, 2943,
        2895, 2847, 2801, 2755, 2710, 2665, 2621, 2579, 2536, 2495, 2454, 2414, 2374, 2335, 2297,
        2259, 2222, 2186, 2150, 2115, 2080, 2046, 2012, 1979, 1947, 1915, 1884, 1853, 1822, 1792,
        1763, 1734, 1706, 1678, 1650, 1623, 1597, 1570, 1545, 1519, 1494, 1470, 1446, 1422, 1399,
        1376, 1353, 1331, 1309, 1288, 1267, 1246, 1226, 1205, 1186, 1166, 1147, 1128, 1110, 1092,
        1074, 1056, 1039, 1022, 1005, 989, 972, 956, 941, 925, 910, 895, 881, 866, 852, 838, 824,
        811, 797, 784, 772, 759, 746, 734, 722, 710, 699, 687, 676, 665, 654, 643, 633, 622, 612,
        602, 592, 583, 573, 564, 554, 545, 536, 528, 519, 510, 502, 494, 486, 478, 470, 462, 455,
        447, 440, 433, 426, 419, 412, 405, 398, 392, 385, 379, 373, 367>>,
     <<10000, 9862, 9726, 9592, 9460, 9329, 9200, 9074, 8948, 8825, 8703, 8583, 8465, 8348, 8233,
        8119, 8007, 7897, 7788, 7681, 7575, 7470, 7367, 7266, 7165, 7066, 6969, 6873, 6778, 6685,
        6592, 6501, 6412, 6323, 6236, 6150, 6065, 5982, 5899, 5818, 5738, 5658, 5580, 5503, 5427,
        5353, 5279, 5206, 5134, 5063, 4994, 4925, 4857, 4790, 4724, 4659, 4594, 4531, 4468, 4407,
        4346, 4286, 4227, 4169, 4111, 4054, 3998, 3943, 3889, 3835, 3782, 3730, 3679, 3628, 3578,
        3529, 3480, 3432, 3385, 3338, 3292, 3247, 3202, 3158, 3114, 3071, 3029, 2987, 2946, 2905,
        2865, 2826, 2787, 2748, 2710, 2673, 2636, 2600, 2564, 2528, 2494, 2459, 2425, 2392, 2359,
        2326, 2294, 2263, 2231, 2201, 2170, 2140, 2111, 2082, 2053, 2025, 1997, 1969, 1942, 1915,
        1889, 1863, 1837, 1812, 1787, 1762, 1738, 1714, 1690, 1667, 1644, 1621, 1599, 1577, 1555,
        1534, 1512, 1492, 1471, 1451, 1431, 1411, 1391, 1372, 1353, 1335, 1316, 1298, 1280, 1263,
        1245, 1228, 1211, 1194, 1178, 1162, 1146, 1130, 1114, 1099, 1084, 1069, 1054, 1039, 1025,
        1011, 997, 983, 970, 956, 943, 930, 917, 905, 892, 880, 868, 856, 844, 832, 821, 810, 798,
        787, 776, 766, 755, 745, 735, 724, 714, 705, 695, 685, 676, 666, 657, 648, 639, 630, 622,
        613, 605, 596, 588, 580, 572, 564, 556, 549, 541, 534, 526, 519, 512, 505, 498, 491, 484,
        478, 471, 464, 458, 452, 446, 439, 433, 427, 421, 416, 410, 404, 399, 393, 388, 382, 377,
        372, 367, 362, 357, 352, 347>>,
     <<10000, 9882, 9766, 9651, 9538, 9425, 9315, 9205, 9097, 8990, 8884, 8779, 8676, 8574, 8473,
        8373, 8275, 8178, 8081, 7986, 7892, 7800, 7708, 7617, 7527, 7439, 7351, 7265, 7179, 7095,
        7012, 6929, 6848, 6767, 6687, 6609, 6531, 6454, 6378, 6303, 6229, 6156, 6083, 6012, 5941,
        5871, 5802, 5734, 5666, 5600, 5534, 5469, 5404, 5341, 5278, 5216, 5154, 5094, 5034, 4975,
        4916, 4858, 4801, 4745, 4689, 4634, 4579, 4525, 4472, 4419, 4367, 4316, 4265, 4215, 4166,
        4117, 4068, 4020, 3973, 3926, 3880, 3834, 3789, 3745, 3701, 3657, 3614, 3572, 3530, 3488,
        3447, 3406, 3366, 3327, 3288, 3249, 3211, 3173, 3136, 3099, 3062, 3026, 2991, 2955, 2921,
        2886, 2852, 2819, 2786, 2753, 2720, 2688, 2657, 2626, 2595, 2564, 2534, 2504, 2475, 2446,
        2417, 2388, 2360, 2333, 2305, 2278, 2251, 2225, 2199, 2173, 2147, 2122, 2097, 2072, 2048,
        2024, 2000, 1976, 1953, 1930, 1907, 1885, 1863, 1841, 1819, 1798, 1777, 1756, 1735, 1715,
        1695, 1675, 1655, 1635, 1616, 1597, 1578, 1560, 1542, 1523, 1505, 1488, 1470, 1453, 1436,
        1419, 1402, 1386, 1369, 1353, 1337, 1322, 1306, 1291, 1276, 1261, 1246, 1231, 1217, 1202,
        1188, 1174, 1160, 1147, 1133, 1120, 1107, 1094, 1081, 1068, 1056, 1043, 1031, 1019, 1007,
        995, 983, 972, 960, 949, 938, 927, 916, 905, 894, 884, 873, 863, 853, 843, 833, 823, 814,
        804, 795, 785, 776, 767, 758, 749, 740, 731, 723, 714, 706, 698, 689, 681, 673, 665, 658,
        650, 642, 635, 627, 620, 612, 605, 598, 591, 584, 577, 570, 564, 557, 551, 544, 538, 531,
        525, 519, 513, 507, 501, 495, 489, 483, 478, 472, 466, 461, 456, 450, 445, 440, 435, 429,
        424, 419, 414, 410, 405, 400, 395, 391, 386, 381, 377, 373, 368, 364, 360, 355, 351, 347,
        343, 339, 335, 331>> >>

----------------------------------------------------------------------------
(* Bounds of the model. *)

\* The longest free scene (number of vertices drawn from Palette).
MaxSplats == 2

\* The number of coincident vertices of the dense scenes (enough for the
\* 0.5th and 99.5th percentiles to exclude one outlier).
ClusterSize == 200

----------------------------------------------------------------------------
(* Arithmetic. *)

Min(a, b) == IF a < b THEN a ELSE b
Max(a, b) == IF a > b THEN a ELSE b

\* np.clip(x, lo, hi)
Clip(x, lo, hi) == Max(lo, Min(x, hi))

\* n / d rounded to the nearest integer, for d > 0.
RoundDiv(n, d) == (2 * n + d) \div (2 * d)

\* n / d for any d # 0, rounded to the nearest integer.
Quot(n, d) == IF d > 0 THEN RoundDiv(n, d) ELSE RoundDiv(-n, -d)

\* float -> int32 of n / d: truncation toward zero, for d # 0.
Trunc(n, d) ==
  LET nn == IF d > 0 THEN n ELSE -n
      dd == IF d > 0 THEN d ELSE -d
  IN  IF nn >= 0 THEN nn \div dd ELSE -((-nn) \div dd)

\* The product of two numbers in units of 1/Scale.
Mul(a, b) == RoundDiv(a * b, Scale)

\* The values a float -> int32 cast of nan or +-inf produces (INT_MIN on x86,
\* 0 or a saturated value on ARM).
IntMin == -2147483647 - 1
IntMax == 2147483647
Garbage == {IntMin, 0, IntMax}

\* +inf of a float division by 0.0.
Inf == 2000000000

\* The sum of a sequence of numbers (by halves: the recursion stays shallow).
SeqSum(s) ==
  LET RECURSIVE Sum(_, _)
      Sum(lo, hi) == IF lo > hi THEN 0
                     ELSE IF lo = hi THEN s[lo]
                     ELSE LET mid == (lo + hi) \div 2
                          IN  Sum(lo, mid) + Sum(mid + 1, hi)
  IN  Sum(1, Len(s))

\* arr[mask]: the elements of s whose position is in keep, in order.
Compress(s, keep) ==
  LET kept == SelectSeq([k \in 1..Len(s) |-> k], LAMBDA k : k \in keep)
  IN  [j \in 1..Len(kept) |-> s[kept[j]]]

\* arr[order]
Gather(s, ord) == [k \in 1..Len(ord) |-> s[ord[k]]]

----------------------------------------------------------------------------
(* Attribute decoding (lines 27-45). *)

\* C0 = 0.28209479177387814
C0 == 2821

\* The decoding without its clip: 0.5 + C0 * f_dc.
SHToRGBUnclipped(f_dc) == Scale \div 2 + Mul(C0, f_dc)

\* np.clip(0.5 + C0 * f_dc, 0, 1)
SHToRGB(f_dc) == Clip(Scale \div 2 + Mul(C0, f_dc), 0, Scale)

\* 1.0 / (1.0 + np.exp(-logit)), on the logits of the model (in units of
\* 1/Scale: -4.0, -3.0, 0.0 and 20.0, where float32 gives exactly 1.0).
Logistic(logit) ==
  CASE logit = -40000 -> 180
    [] logit = -30000 -> 474
    [] logit = 0      -> 5000
    [] logit = 200000 -> 10000

\* np.exp(log_scale) in world units of 1e-8, on the log-scales of the model
\* (in units of 1/Scale: -20.0, -17.7275, -14.0, -13.0 and -12.0).
ExpScale(log_scale) ==
  CASE log_scale = -200000 -> 0
    [] log_scale = -177275 -> 2
    [] log_scale = -140000 -> 83
    [] log_scale = -130000 -> 226
    [] log_scale = -120000 -> 614

\* The average of the two largest of the three scales (lines 44-45).
SplatRadius(s0, s1, s2) ==
  LET scales == SortSeq(<<s0, s1, s2>>, LAMBDA a, b : a < b)
  IN  RoundDiv(scales[2] + scales[3], 2)

----------------------------------------------------------------------------
(* The inputs: the vertex array of the .ply file and the arguments. *)

Vertex(x, y, z, f_dc, logit, log_scales) ==
  [x |-> x, y |-> y, z |-> z,
   f_dc_0 |-> f_dc[1], f_dc_1 |-> f_dc[2], f_dc_2 |-> f_dc[3],
   opacity |-> logit,
   scale_0 |-> log_scales[1], scale_1 |-> log_scales[2], scale_2 |-> log_scales[3]]

\* SH coefficients (in units of 1/Scale) that decode to red, blue, green, grey.
Red   == <<20000, -20000, -20000>>
Blue  == <<-20000, -20000, 20000>>
Green == <<-20000, 20000, 0>>
Grey  == <<0, 0, 0>>

\* The vertices the free scenes are made of.
Palette ==
  { Vertex(0,   0,   1, Red,   200000, <<-130000, -200000, -130000>>),  \* opaque, near
    Vertex(0,   0,   2, Blue,  200000, <<-130000, -130000, -200000>>),  \* opaque, same place, far
    Vertex(500, 0,   2, Grey,  0,      <<-120000, -120000, -120000>>),  \* translucent
    Vertex(0,   300, 1, Green, 0,      <<-120000, -200000, -120000>>),  \* translucent
    Vertex(900, 900, 0, Grey,  -40000, <<-120000, -120000, -120000>>),  \* opacity 0.018: filtered
    Vertex(0,   0,   2, Red,   -30000, <<-200000, -200000, -200000>>),  \* faint, one pixel wide
    Vertex(500, 0,   1, Blue,  200000, <<-140000, -130000, -120000>>) } \* opaque

RECURSIVE SeqsUpTo(_, _)
SeqsUpTo(S, n) ==
  IF n = 0 THEN {<< >>}
  ELSE LET shorter == SeqsUpTo(S, n - 1)
       IN  shorter \cup {Append(s, e) : s \in {t \in shorter : Len(t) = n - 1}, e \in S}

FreeScenes == SeqsUpTo(Palette, MaxSplats)

\* A dense scene: ClusterSize opaque vertices at the origin, at depths
\* 1..ClusterSize, and one vertex a few units away from them.
Cluster ==
  [k \in 1..ClusterSize |->
     Vertex(0, 0, k, Red, 200000, <<-130000, -130000, -130000>>)]

Outliers ==
  { Vertex(-5, 0, 0, Blue,  200000, <<-130000, -130000, -130000>>),
    Vertex(-4, 0, 0, Blue,  200000, <<-200000, -200000, -200000>>),
    Vertex(-4, 0, ClusterSize + 1, Blue, 200000, <<-200000, -200000, -200000>>),
    Vertex(-4, 0, ClusterSize + 1, Blue, -30000, <<-130000, -130000, -130000>>),
    Vertex(-4, 1, 0, Blue,  0,      <<-130000, -130000, -130000>>),
    Vertex(1,  0, 0, Grey,  0,      <<-177275, -200000, -177275>>),
    Vertex(5,  0, 0, Green, 200000, <<-130000, -130000, -130000>>),
    Vertex(6,  0, 0, Green, 200000, <<-130000, -130000, -130000>>),
    Vertex(0, -7, 0, Green, 200000, <<-130000, -130000, -130000>>),
    Vertex(1,  8, 0, Green, 200000, <<-130000, -130000, -130000>>),
    Vertex(-5, 3, 0, Grey,  -40000, <<-130000, -130000, -130000>>) }  \* filtered

DenseScenes == {Append(Cluster, o) : o \in Outliers}

\* The arguments width, height, angle_deg of the calls.
Call(w, h, a) == [width |-> w, height |-> h, angle_deg |-> a]

FreeCalls ==
  { Call(4, 3, 0), Call(4, 3, 90), Call(4, 3, 180),
    Call(0, 3, 0), Call(4, 0, 0), Call(-1, 3, 0), Call(4, -1, 0) }

DenseCalls == { Call(4, 3, 0) }

----------------------------------------------------------------------------
VARIABLES
  v,             \* ply["vertex"]: the sequence of raw vertices
  width, height, angle_deg,
  pc,            \* the position in render_splat, or the exception it raised
  pts, colors, opacity, splat_radius,
  x_min, x_max, y_min, y_max,
  px_per_unit,   \* the fraction num / den
  pixel_radii, px, py, z, order,
  img, alpha_buf,
  i,             \* the loop index, 1..n (n + 1 once the loop is over)
  out,           \* the image handed to Image.save, NoImage until then
  img_full, alpha_full,  \* the canvas of the same loop without the early exit
  call,          \* 1: the call on v; 2: the call on v without its filtered vertices
  first          \* what call 1 ended with, for the comparison

vars == <<v, width, height, angle_deg, pc, pts, colors, opacity, splat_radius,
          x_min, x_max, y_min, y_max, px_per_unit, pixel_radii, px, py, z,
          order, img, alpha_buf, i, out, img_full, alpha_full, call, first>>

NoCanvas == [p \in {} |-> 0]
NoImage == [p \in {} |-> 0]
NoFraction == [num |-> 0, den |-> 1]
NoFirst == [pc |-> "none", zs |-> << >>, order |-> << >>,
            img |-> NoCanvas, alpha_buf |-> NoCanvas, out |-> NoImage]

\* The state at the entry of render_splat.
Entry(vertices, c, k, f) ==
  /\ v = vertices
  /\ width = c.width /\ height = c.height /\ angle_deg = c.angle_deg
  /\ pc = "decode"
  /\ pts = << >> /\ colors = << >> /\ opacity = << >> /\ splat_radius = << >>
  /\ x_min = 0 /\ x_max = 0 /\ y_min = 0 /\ y_max = 0
  /\ px_per_unit = NoFraction
  /\ pixel_radii = << >> /\ px = << >> /\ py = << >> /\ z = << >> /\ order = << >>
  /\ img = NoCanvas /\ alpha_buf = NoCanvas
  /\ i = 0
  /\ out = NoImage
  /\ img_full = NoCanvas /\ alpha_full = NoCanvas
  /\ call = k
  /\ first = f

Init ==
  \/ \E s \in FreeScenes, c \in FreeCalls : Entry(s, c, 1, NoFirst)
  \/ \E s \in DenseScenes, c \in DenseCalls : Entry(s, c, 1, NoFirst)

----------------------------------------------------------------------------
(* Lines 24-45: read the vertices and decode their attributes. *)

Decode ==
  /\ pc = "decode"
  /\ pts' = [k \in 1..Len(v) |-> <<v[k].x, v[k].y, v[k].z>>]
  /\ colors' = [k \in 1..Len(v) |->
                  <<SHToRGB(v[k].f_dc_0), SHToRGB(v[k].f_dc_1), SHToRGB(v[k].f_dc_2)>>]
  /\ opacity' = [k \in 1..Len(v) |-> Logistic(v[k].opacity)]
  /\ splat_radius' = [k \in 1..Len(v) |->
                        SplatRadius(ExpScale(v[k].scale_0), ExpScale(v[k].scale_1),
                                    ExpScale(v[k].scale_2))]
  /\ pc' = "filter"
  /\ UNCHANGED <<v, width, height, angle_deg, x_min, x_max, y_min, y_max,
                 px_per_unit, pixel_radii, px, py, z, order, img, alpha_buf, i,
                 out, img_full, alpha_full, call, first>>

(* Lines 47-50: filter low opacity. *)

\* The literal 0.02.
OpacityMin == 200

\* The filter with a threshold of 0.01.
FilterMaskLoose(a) == a > OpacityMin \div 2

FilterMask(a) == a > OpacityMin

Filter ==
  /\ pc = "filter"
  /\ LET mask == {k \in 1..Len(opacity) : FilterMask(opacity[k])}
     IN  /\ pts' = Compress(pts, mask)
         /\ colors' = Compress(colors, mask)
         /\ opacity' = Compress(opacity, mask)
         /\ splat_radius' = Compress(splat_radius, mask)
  /\ pc' = "rotate"
  /\ UNCHANGED <<v, width, height, angle_deg, x_min, x_max, y_min, y_max,
                 px_per_unit, pixel_radii, px, py, z, order, img, alpha_buf, i,
                 out, img_full, alpha_full, call, first>>

(* Lines 52-64: rotate around the Y axis, about the centroid. *)

\* np.cos and np.sin of np.radians(angle_deg), on the angles of the model
\* (cos 90 and sin 180 are 6e-17 and 1e-16 in floats: 0 at float32 precision
\* next to the coordinates they are added to).
CosDeg(a) == CASE a = 0 -> 1 [] a = 90 -> 0 [] a = 180 -> -1
SinDeg(a) == CASE a = 0 -> 0 [] a = 90 -> 1 [] a = 180 -> 0

\* pts.mean(axis=0); nan on an empty array, where nothing reads it.
Centroid(p) ==
  IF Len(p) = 0 THEN <<0, 0, 0>>
  ELSE [d \in 1..3 |-> RoundDiv(SeqSum([k \in 1..Len(p) |-> p[k][d]]), Len(p))]

Rotated(p, a) ==
  LET center == Centroid(p)
      cos_a == CosDeg(a)
      sin_a == SinDeg(a)
  IN  [k \in 1..Len(p) |->
         LET x == p[k][1] - center[1]
             zz == p[k][3] - center[3]
         IN  << x * cos_a + zz * sin_a + center[1],
                p[k][2],
                (-x) * sin_a + zz * cos_a + center[3] >>]

Rotate ==
  /\ pc = "rotate"
  /\ pts' = IF angle_deg # 0 THEN Rotated(pts, angle_deg) ELSE pts
  /\ pc' = "bounds"
  /\ UNCHANGED <<v, width, height, angle_deg, colors, opacity, splat_radius,
                 x_min, x_max, y_min, y_max, px_per_unit, pixel_radii, px, py,
                 z, order, img, alpha_buf, i, out, img_full, alpha_full, call, first>>

(* Lines 66-76: the percentile bounds and their padding. *)

\* np.percentile(xs, q) with q = per_mille / 10: linear interpolation between
\* the two order statistics around the index (n - 1) * q / 100.
Percentile(xs, per_mille) ==
  LET s == SortSeq(xs, LAMBDA a, b : a < b)
      idx == (Len(xs) - 1) * per_mille
      lo == idx \div 1000
      frac == idx % 1000
  IN  IF frac = 0 THEN s[lo + 1]
      ELSE s[lo + 1] + RoundDiv(frac * (s[lo + 2] - s[lo + 1]), 1000)

\* (x_max - x_min) * 0.1
Pad(lo, hi) == RoundDiv(hi - lo, 10)

Bounds ==
  /\ pc = "bounds"
  /\ IF Len(pts) = 0
     THEN \* np.percentile of an empty array raises IndexError
          /\ pc' = "IndexError"
          /\ UNCHANGED <<x_min, x_max, y_min, y_max>>
     ELSE LET x == [k \in 1..Len(pts) |-> pts[k][1]]
              y == [k \in 1..Len(pts) |-> pts[k][2]]
              xlo == Percentile(x, 5)
              xhi == Percentile(x, 995)
              ylo == Percentile(y, 5)
              yhi == Percentile(y, 995)
          IN  /\ x_min' = xlo - Pad(xlo, xhi)
              /\ x_max' = xhi + Pad(xlo, xhi)
              /\ y_min' = ylo - Pad(ylo, yhi)
              /\ y_max' = yhi + Pad(ylo, yhi)
              /\ pc' = "aspect"
  /\ UNCHANGED <<v, width, height, angle_deg, pts, colors, opacity, splat_radius,
                 px_per_unit, pixel_radii, px, py, z, order, img, alpha_buf, i,
                 out, img_full, alpha_full, call, first>>

(* Lines 78-93: grow one axis of the window to the aspect ratio of the image. *)

\* scene_w / (scene_h + 1e-8) > width / height, for height # 0.
SceneIsWider(scene_w, scene_h, w, h) ==
  IF h > 0 THEN scene_w * h > w * (scene_h + Eps)
           ELSE scene_w * h < w * (scene_h + Eps)

Aspect ==
  /\ pc = "aspect"
  /\ IF height = 0
     THEN \* image_aspect = width / height raises ZeroDivisionError
          /\ pc' = "ZeroDivisionError"
          /\ UNCHANGED <<x_min, x_max, y_min, y_max>>
     ELSE LET scene_w == x_max - x_min
              scene_h == y_max - y_min
          IN  /\ IF SceneIsWider(scene_w, scene_h, width, height)
                 THEN IF width = 0
                      THEN \* scene_w / 0.0 is inf: so are extra and the bounds
                           /\ y_min' = -Inf
                           /\ y_max' = Inf
                           /\ UNCHANGED <<x_min, x_max>>
                      ELSE LET new_h == Quot(scene_w * height, width)
                               extra == RoundDiv(new_h - scene_h, 2)
                           IN  /\ y_min' = y_min - extra
                               /\ y_max' = y_max + extra
                               /\ UNCHANGED <<x_min, x_max>>
                 ELSE LET new_w == Quot(scene_h * width, height)
                          extra == RoundDiv(new_w - scene_w, 2)
                      IN  /\ x_min' = x_min - extra
                          /\ x_max' = x_max + extra
                          /\ UNCHANGED <<y_min, y_max>>
              /\ pc' = "project"
  /\ UNCHANGED <<v, width, height, angle_deg, pts, colors, opacity, splat_radius,
                 px_per_unit, pixel_radii, px, py, z, order, img, alpha_buf, i,
                 out, img_full, alpha_full, call, first>>

(* Lines 95-110: the pixel radii, the pixel coordinates, the culling. *)

\* The literals 1 and 12 of the radius clamp (line 99).
RadiusMin == 1
RadiusMax == 12

\* np.clip(splat_radius * px_per_unit, 1, 12).astype(np.int32)
PixelRadius(radius, ppu) ==
  Clip(Trunc(radius * ppu.num, ppu.den), RadiusMin, RadiusMax)

\* ((c - lo) / (hi - lo + 1e-8) * (dim - 1)).astype(np.int32); the cast of the
\* nan or inf that infinite bounds or a zero denominator give is g.
PixelCoord(c, lo, hi, dim, g) ==
  IF hi = Inf \/ hi - lo + Eps = 0 THEN g
  ELSE Trunc((c - lo) * (dim - 1), hi - lo + Eps)

\* A margin one pixel short of the largest radius.
MarginTooSmall == RadiusMax - 1

\* The margin of the culling (line 106).
max_r == 12

\* valid (line 107)
Valid(cx, cy, w, h) ==
  /\ cx >= -max_r /\ cx < w + max_r
  /\ cy >= -max_r /\ cy < h + max_r

Project ==
  /\ pc = "project"
  /\ \E g \in IF y_max = Inf \/ y_max - y_min + Eps = 0 THEN Garbage ELSE {0} :
       LET n == Len(pts)
           ppu == [num |-> width - 1, den |-> x_max - x_min + Eps]
           radii == [k \in 1..n |-> PixelRadius(splat_radius[k], ppu)]
           pxs == [k \in 1..n |-> PixelCoord(pts[k][1], x_min, x_max, width, g)]
           pys == [k \in 1..n |-> PixelCoord(pts[k][2], y_min, y_max, height, g)]
           valid == {k \in 1..n : Valid(pxs[k], pys[k], width, height)}
       IN  /\ px_per_unit' = ppu
           /\ px' = Compress(pxs, valid)
           /\ py' = Compress(pys, valid)
           /\ z' = Compress([k \in 1..n |-> pts[k][3]], valid)
           /\ colors' = Compress(colors, valid)
           /\ opacity' = Compress(opacity, valid)
           /\ pixel_radii' = Compress(radii, valid)
  /\ pc' = "sort"
  /\ UNCHANGED <<v, width, height, angle_deg, pts, splat_radius, x_min, x_max,
                 y_min, y_max, order, img, alpha_buf, i, out, img_full,
                 alpha_full, call, first>>

(* Lines 112-116: sort front to back. *)

\* The sort back to front: the results of np.argsort(-zs).
ArgsortsDescending(zs) ==
  LET n == Len(zs)
  IN  {SortSeq([k \in 1..n |-> k],
               LAMBDA a, b : zs[a] > zs[b] \/ (zs[a] = zs[b] /\ a < b))}

\* The results np.argsort(zs) can have.  Its default kind is quicksort, which
\* is not stable: every permutation that puts zs in non-decreasing order is a
\* possible result (the stable one, and those that permute equal depths).
Argsorts(zs) ==
  LET n == Len(zs)
      stable == SortSeq([k \in 1..n |-> k],
                        LAMBDA a, b : zs[a] < zs[b] \/ (zs[a] = zs[b] /\ a < b))
      tied == {k \in 1..n : \E m \in 1..n : m # k /\ zs[stable[m]] = zs[stable[k]]}
      swaps == {f \in [tied -> tied] :
                  /\ \A k \in tied : zs[stable[f[k]]] = zs[stable[k]]
                  /\ \A k, m \in tied : f[k] = f[m] => k = m}
  IN  {[k \in 1..n |-> IF k \in tied THEN stable[f[k]] ELSE stable[k]] : f \in swaps}

\* np.argsort is a function: on the depths of call 1 it returns what it returned then.
ArgsortOf(zs) ==
  IF call = 2 /\ first.zs = zs THEN {first.order} ELSE Argsorts(zs)

Sort ==
  /\ pc = "sort"
  /\ \E ord \in ArgsortOf(z) :
       /\ order' = ord
       /\ px' = Gather(px, ord)
       /\ py' = Gather(py, ord)
       /\ colors' = Gather(colors, ord)
       /\ opacity' = Gather(opacity, ord)
       /\ pixel_radii' = Gather(pixel_radii, ord)
  /\ pc' = "alloc"
  /\ UNCHANGED <<v, width, height, angle_deg, pts, splat_radius, x_min, x_max,
                 y_min, y_max, px_per_unit, z, img, alpha_buf, i, out, img_full,
                 alpha_full, call, first>>

(* Lines 118-123: the zeroed canvas. *)

Pixels(w, h) == (0..(h - 1)) \X (0..(w - 1))

Alloc ==
  /\ pc = "alloc"
  /\ IF width < 0 \/ height < 0
     THEN \* np.zeros raises ValueError: negative dimensions are not allowed
          /\ pc' = "ValueError"
          /\ UNCHANGED <<img, alpha_buf, img_full, alpha_full, i>>
     ELSE /\ img' = [p \in Pixels(width, height) |-> <<0, 0, 0>>]
          /\ alpha_buf' = [p \in Pixels(width, height) |-> 0]
          /\ img_full' = [p \in Pixels(width, height) |-> <<0, 0, 0>>]
          /\ alpha_full' = [p \in Pixels(width, height) |-> 0]
          /\ i' = 1
          /\ pc' = "loop"
  /\ UNCHANGED <<v, width, height, angle_deg, pts, colors, opacity, splat_radius,
                 x_min, x_max, y_min, y_max, px_per_unit, pixel_radii, px, py,
                 z, order, out, call, first>>

(* Lines 125-166: the compositing loop, one splat per step. *)

\* The literal 0.95 of the early exit and the literal 0.001 of update_mask.
OpaqueThreshold == 9500
EffectiveMin == 10

\* The bounding box of a splat, clipped to the canvas (lines 132-135).
Box(cx, cy, r, w, h) ==
  [y0 |-> Max(0, cy - r), y1 |-> Min(h, cy + r + 1),
   x0 |-> Max(0, cx - r), x1 |-> Min(w, cx + r + 1)]

\* line 137
BoxEmpty(b) == b.y0 >= b.y1 \/ b.x0 >= b.x1

BoxPixels(b) == (b.y0..(b.y1 - 1)) \X (b.x0..(b.x1 - 1))

\* line 141: the center pixel is on the canvas and already opaque
AlreadyOpaque(cx, cy, alpha, w, h) ==
  /\ 0 <= cy /\ cy < h /\ 0 <= cx /\ cx < w
  /\ alpha[<<cy, cx>>] > OpaqueThreshold

\* lines 148-150: gauss, from the pixel radius and the squared distance
Gauss(r, dist_sq) == GaussTable[r][dist_sq + 1]

\* line 153
Contrib(a, gauss) == Mul(a, gauss)

\* The budget never spent: remaining = 1.0.
RemainingUnbudgeted(alpha) == Scale

\* line 154
Remaining(alpha) == Scale - alpha

\* The contribution not scaled by the budget: effective = contrib.
EffectiveUnbudgeted(contrib, remaining) == contrib

\* line 155
Effective(contrib, remaining) == Mul(contrib, remaining)

\* line 158
UpdateMask(effective) == effective > EffectiveMin

\* effective at pixel p = <<y, x>>, for the splat at <<cx, cy>>
EffectiveAt(alpha, p, cx, cy, r, a) ==
  LET dx == p[2] - cx
      dy == p[1] - cy
  IN  Effective(Contrib(a, Gauss(r, dx * dx + dy * dy)), Remaining(alpha[p]))

\* line 164: c[ch] * effective
ColorIncrement(c, effective) == Mul(c, effective)

\* lines 144-166: the canvas after splat k has been blended into it
Blend(canvas, k) ==
  LET b == Box(px[k], py[k], pixel_radii[k], width, height)
      eff == [p \in BoxPixels(b) |->
                EffectiveAt(canvas.alpha_buf, p, px[k], py[k], pixel_radii[k], opacity[k])]
      update_mask == {p \in BoxPixels(b) : UpdateMask(eff[p])}
  IN  [img |-> [p \in DOMAIN canvas.img |->
                  IF p \in update_mask
                  THEN [ch \in 1..3 |-> canvas.img[p][ch] + ColorIncrement(colors[k][ch], eff[p])]
                  ELSE canvas.img[p]],
       alpha_buf |-> [p \in DOMAIN canvas.alpha_buf |->
                        IF p \in update_mask THEN canvas.alpha_buf[p] + eff[p]
                        ELSE canvas.alpha_buf[p]]]

\* the same splat in the loop without lines 140-142
BlendFull(canvas, k) ==
  IF BoxEmpty(Box(px[k], py[k], pixel_radii[k], width, height)) THEN canvas
  ELSE Blend(canvas, k)

Canvas == [img |-> img, alpha_buf |-> alpha_buf]
CanvasFull == [img |-> img_full, alpha_buf |-> alpha_full]

\* the index of the splat after one that was skipped or blended
Continue(k) == k + 1

LoopStep(next) ==
  /\ img' = next.img
  /\ alpha_buf' = next.alpha_buf
  /\ img_full' = BlendFull(CanvasFull, i).img
  /\ alpha_full' = BlendFull(CanvasFull, i).alpha_buf
  /\ i' = Continue(i)
  /\ UNCHANGED <<v, width, height, angle_deg, pc, pts, colors, opacity,
                 splat_radius, x_min, x_max, y_min, y_max, px_per_unit,
                 pixel_radii, px, py, z, order, out, call, first>>

InLoop == pc = "loop" /\ i <= Len(px)

CurrentBox == Box(px[i], py[i], pixel_radii[i], width, height)

\* lines 137-138
SkipEmptyBox ==
  /\ InLoop
  /\ BoxEmpty(CurrentBox)
  /\ LoopStep(Canvas)

\* lines 140-142
EarlyExit ==
  /\ InLoop
  /\ ~BoxEmpty(CurrentBox)
  /\ AlreadyOpaque(px[i], py[i], alpha_buf, width, height)
  /\ LoopStep(Canvas)

\* lines 159-160: nothing passes the threshold
NoUpdate ==
  /\ InLoop
  /\ ~BoxEmpty(CurrentBox)
  /\ ~AlreadyOpaque(px[i], py[i], alpha_buf, width, height)
  /\ Blend(Canvas, i) = Canvas
  /\ LoopStep(Canvas)

\* lines 162-166
Update ==
  /\ InLoop
  /\ ~BoxEmpty(CurrentBox)
  /\ ~AlreadyOpaque(px[i], py[i], alpha_buf, width, height)
  /\ Blend(Canvas, i) # Canvas
  /\ LoopStep(Blend(Canvas, i))

(* Lines 168-170: clamp, quantize and save. *)

\* (np.clip(x, 0, 1) * 255).astype(np.uint8)
Quantize(x) == Trunc(Clip(x, 0, Scale) * 255, Scale)

Finalize ==
  /\ pc = "loop" /\ i > Len(px)
  /\ out' = [p \in DOMAIN img |-> [ch \in 1..3 |-> Quantize(img[p][ch])]]
  /\ pc' = "done"
  /\ UNCHANGED <<v, width, height, angle_deg, pts, colors, opacity, splat_radius,
                 x_min, x_max, y_min, y_max, px_per_unit, pixel_radii, px, py,
                 z, order, img, alpha_buf, i, img_full, alpha_full, call, first>>

\* An image without pixels: whether Image.save writes it or raises depends on
\* the installed Pillow and on the format; this is the run in which it raises.
SaveFails ==
  /\ pc = "loop" /\ i > Len(px)
  /\ width = 0 \/ height = 0
  /\ pc' = "SaveError"
  /\ UNCHANGED <<v, width, height, angle_deg, pts, colors, opacity, splat_radius,
                 x_min, x_max, y_min, y_max, px_per_unit, pixel_radii, px, py,
                 z, order, img, alpha_buf, i, out, img_full, alpha_full, call, first>>

----------------------------------------------------------------------------
(* The comparison render: the same call on the scene without the vertices   *)
(* whose decoded opacity is at most 0.02.                                   *)

Faint(vertex) == Logistic(vertex.opacity) <= OpacityMin

WithoutFaint(vertices) == SelectSeq(vertices, LAMBDA e : ~Faint(e))

Rerender ==
  /\ call = 1
  /\ pc \in {"done", "IndexError"}
  /\ width > 0 /\ height > 0
  /\ \E k \in 1..Len(v) : Faint(v[k])
  /\ first' = [pc |-> pc, zs |-> z, order |-> order,
               img |-> img, alpha_buf |-> alpha_buf, out |-> out]
  /\ call' = 2
  /\ v' = WithoutFaint(v)
  /\ pc' = "decode"
  /\ pts' = << >> /\ colors' = << >> /\ opacity' = << >> /\ splat_radius' = << >>
  /\ x_min' = 0 /\ x_max' = 0 /\ y_min' = 0 /\ y_max' = 0
  /\ px_per_unit' = NoFraction
  /\ pixel_radii' = << >> /\ px' = << >> /\ py' = << >> /\ z' = << >> /\ order' = << >>
  /\ img' = NoCanvas /\ alpha_buf' = NoCanvas
  /\ i' = 0
  /\ out' = NoImage
  /\ img_full' = NoCanvas /\ alpha_full' = NoCanvas
  /\ UNCHANGED <<width, height, angle_deg>>

----------------------------------------------------------------------------
Next ==
  \/ Decode \/ Filter \/ Rotate \/ Bounds \/ Aspect \/ Project \/ Sort \/ Alloc
  \/ SkipEmptyBox \/ EarlyExit \/ NoUpdate \/ Update
  \/ Finalize \/ SaveFails
  \/ Rerender

Spec == Init /\ [][Next]_vars

----------------------------------------------------------------------------
(* The properties. *)

ValidDimensions == width > 0 /\ height > 0

Compositing == pc \in {"loop", "done"}

\* C1. Alpha bound: at every point of the compositing loop, every cell of
\* alpha_buf is within [0, 1].
AlphaBound ==
  \A p \in DOMAIN alpha_buf : 0 <= alpha_buf[p] /\ alpha_buf[p] <= Scale

\* Two splats or more have been composited; one pixel is saturated and
\* another is partly covered.
AlphaBoundWitness ==
  /\ pc = "loop" /\ i >= 3
  /\ \E p \in DOMAIN alpha_buf : alpha_buf[p] = Scale
  /\ \E p \in DOMAIN alpha_buf : 0 < alpha_buf[p] /\ alpha_buf[p] < Scale

\* C2. The early exit is a pure optimization: the final img and alpha_buf are
\* those of the same loop without the check.
EarlyExitIsPure ==
  pc = "done" => img = img_full /\ alpha_buf = alpha_full

\* The nearer of two splats: the position, in the sorted arrays, of the one
\* with the smaller depth.
Nearer == IF z[order[1]] < z[order[2]] THEN 1 ELSE 2

TwoOpaqueAtOnePixel ==
  /\ pc = "done" /\ ValidDimensions
  /\ Len(px) = 2
  /\ px[1] = px[2] /\ py[1] = py[2]
  /\ <<py[1], px[1]>> \in DOMAIN img
  /\ opacity[1] = Scale /\ opacity[2] = Scale
  /\ z[1] # z[2]

\* C3. Front-to-back occlusion: of two fully opaque splats at the same center
\* pixel, the one with the smaller depth gives the pixel its color, whatever
\* their order in the input.
FrontOccludes ==
  TwoOpaqueAtOnePixel => img[<<py[1], px[1]>>] = colors[Nearer]

\* The two splats have different colors and the farther one comes first in
\* the input.
FrontOccludesWitness ==
  /\ TwoOpaqueAtOnePixel
  /\ colors[1] # colors[2]
  /\ z[1] > z[2]

\* C4. Opacity filter non-interference: the render of a scene and the render
\* of the same scene without its vertices of opacity <= 0.02 end the same
\* way, with the same depths to sort and the same canvas and image.
FaintSplatsChangeNothing ==
  (call = 2 /\ pc \in {"done", "IndexError"}) =>
     /\ pc = first.pc
     /\ z = first.zs
     /\ img = first.img
     /\ alpha_buf = first.alpha_buf
     /\ out = first.out

\* The second render is over and its image is not empty-handed: some pixel
\* is lit.
FaintSplatsWitness ==
  /\ call = 2 /\ pc = "done"
  /\ \E p \in DOMAIN out : out[p] # <<0, 0, 0>>

\* C5. Degenerate scene: when no splat survives the opacity filter, the call
\* does not fail and writes a width x height image that is black everywhere.
DegenerateSceneRenders ==
  (ValidDimensions /\ pc \notin {"decode", "filter"} /\ Len(pts) = 0) =>
     /\ pc \notin {"IndexError", "ZeroDivisionError", "ValueError", "SaveError"}
     /\ pc = "done" => /\ DOMAIN out = Pixels(width, height)
                       /\ \A p \in DOMAIN out : out[p] = <<0, 0, 0>>

\* C6. Invalid dimensions: with width <= 0 or height <= 0 the call stops
\* before any framing, projection or compositing, with no other exception and
\* without writing an image.
InvalidDimensionRejected ==
  (width <= 0 \/ height <= 0) =>
     /\ pc \notin {"aspect", "project", "sort", "alloc", "loop", "done"}
     /\ pc \notin {"ZeroDivisionError", "ValueError", "SaveError"}
     /\ out = NoImage

Sorted == pc \in {"loop", "done"} /\ ValidDimensions

\* C7. Depth order: the splats are composited in non-decreasing z, and
\* splats of equal z in the relative order of the filtered input.
StableDepthOrder ==
  Sorted =>
     \A j, k \in 1..Len(order) :
        j < k => \/ z[order[j]] < z[order[k]]
                 \/ z[order[j]] = z[order[k]] /\ order[j] < order[k]

\* The alpha of splat k of the sorted arrays at pixel p: opacity times weight.
SplatAlpha(k, p) ==
  LET dx == p[2] - px[k]
      dy == p[1] - py[k]
  IN  Mul(opacity[k], GaussTable[pixel_radii[k]][dx * dx + dy * dy + 1])

InBox(k, p) ==
  /\ p[2] >= px[k] - pixel_radii[k] /\ p[2] <= px[k] + pixel_radii[k]
  /\ p[1] >= py[k] - pixel_radii[k] /\ p[1] <= py[k] + pixel_radii[k]

\* The back splat of two is blended: its center pixel is off the canvas or
\* the front splat left it at 0.95 or less.
BackIsBlended ==
  LET c == <<py[2], px[2]>>
  IN  \/ c \notin DOMAIN alpha_buf
      \/ ~InBox(1, c)
      \/ SplatAlpha(1, c) <= 9500

\* A pixel where the two splats both contribute more than 0.001.
BothContribute(p) ==
  /\ InBox(1, p) /\ InBox(2, p)
  /\ SplatAlpha(1, p) > 10
  /\ (SplatAlpha(2, p) * (Scale - SplatAlpha(1, p)) + Scale \div 2) \div Scale > 10

\* C8. Over operator: two splats composited front then back onto the empty
\* canvas leave, where both contribute, the color
\* c_front a_front + c_back a_back (1 - a_front) and the alpha
\* a_front + a_back (1 - a_front).
OverOperator ==
  (pc = "done" /\ ValidDimensions /\ Len(px) = 2 /\ BackIsBlended) =>
     \A p \in DOMAIN alpha_buf :
        BothContribute(p) =>
           LET a_front == SplatAlpha(1, p)
               a_back == SplatAlpha(2, p)
               behind == (a_back * (Scale - a_front) + Scale \div 2) \div Scale
           IN  /\ alpha_buf[p] = a_front + behind
               /\ \A ch \in 1..3 :
                    img[p][ch] = (colors[1][ch] * a_front + Scale \div 2) \div Scale
                                 + (colors[2][ch] * behind + Scale \div 2) \div Scale

\* Two translucent splats of different colors overlap on some pixel.
OverOperatorWitness ==
  /\ pc = "done" /\ ValidDimensions /\ Len(px) = 2 /\ BackIsBlended
  /\ opacity[1] < Scale /\ opacity[2] < Scale
  /\ colors[1] # colors[2]
  /\ <<px[1], py[1]>> # <<px[2], py[2]>>
  /\ \E p \in DOMAIN alpha_buf : BothContribute(p)

Projected == pc \in {"sort", "alloc", "loop", "done"} /\ ValidDimensions

\* The pixel center and radius the projector computed for splat k of pts.
Footprint(k) ==
  [cx |-> (IF pts[k][1] - x_min >= 0
           THEN ((pts[k][1] - x_min) * (width - 1)) \div (x_max - x_min + 1)
           ELSE -(((x_min - pts[k][1]) * (width - 1)) \div (x_max - x_min + 1))),
   cy |-> (IF pts[k][2] - y_min >= 0
           THEN ((pts[k][2] - y_min) * (height - 1)) \div (y_max - y_min + 1)
           ELSE -(((y_min - pts[k][2]) * (height - 1)) \div (y_max - y_min + 1))),
   r |-> PixelRadius(splat_radius[k], px_per_unit)]

Discarded(k) ==
  LET f == Footprint(k)
  IN  f.cx < -12 \/ f.cx >= width + 12 \/ f.cy < -12 \/ f.cy >= height + 12

\* The footprint box of splat k meets the canvas.
TouchesCanvas(k) ==
  LET f == Footprint(k)
  IN  \E p \in Pixels(width, height) :
        /\ p[2] >= f.cx - f.r /\ p[2] <= f.cx + f.r
        /\ p[1] >= f.cy - f.r /\ p[1] <= f.cy + f.r

CullingKeepsFootprints ==
  Projected =>
     /\ \A k \in 1..Len(pts) : Footprint(k).r \in 1..12
     /\ \A k \in 1..Len(pts) : Discarded(k) => ~TouchesCanvas(k)
     /\ Len(px) = Cardinality({k \in 1..Len(pts) : ~Discarded(k)})

EmptyBoxIsSkipped ==
  (InLoop /\ ValidDimensions /\ BoxEmpty(CurrentBox)) =>
     img' = img /\ alpha_buf' = alpha_buf /\ i' = i + 1

\* C9. Culling is exact for the radius clamp: every pixel radius is in 1..12,
\* a discarded splat has a footprint box that misses the canvas, and a
\* retained splat whose box is empty leaves the canvas as it is.
CullingIsExact == [](CullingKeepsFootprints) /\ [][EmptyBoxIsSkipped]_vars

\* The projector discarded one splat and kept others, and the compositor has
\* gone through those it kept.
CullingWitness ==
  /\ pc = "done" /\ ValidDimensions
  /\ \E k \in 1..Len(pts) : Discarded(k)
  /\ \E k \in 1..Len(pts) : ~Discarded(k) /\ TouchesCanvas(k)

\* C10. Premultiplied color bound: during compositing every channel of img is
\* between 0 and the alpha of its pixel, so it never exceeds 1 and the clamp of
\* the last step changes no value.
PremultipliedBound ==
  Compositing =>
     \A p \in DOMAIN img : \A ch \in 1..3 :
        /\ 0 <= img[p][ch]
        /\ img[p][ch] <= alpha_buf[p]
        /\ img[p][ch] <= Scale
        /\ pc = "done" => out[p][ch] = (img[p][ch] * 255) \div Scale

\* The image is written and some channel of some pixel has reached its alpha
\* while another stayed strictly below.
PremultipliedWitness ==
  /\ pc = "done"
  /\ \E p \in DOMAIN img : \E ch \in 1..3 :
       img[p][ch] > 0 /\ img[p][ch] = alpha_buf[p]
  /\ \E p \in DOMAIN img : \E ch \in 1..3 :
       img[p][ch] > 0 /\ img[p][ch] < alpha_buf[p]

=============================================================================
